---------------------------- MODULE Spec2Model ----------------------------
(***************************************************************************)
(* Model of geomloss/ot/abstract_solvers/annealing.py: the function        *)
(* annealing_parameters, which turns (diameter, p, blur, reach, n_iter,    *)
(* scaling, scales) into the descent plan of a Sinkhorn loop.              *)
(*                                                                         *)
(* Numbers.  The function works on positive floats that it multiplies,     *)
(* raises to a power and compares, and it does part of the work in log     *)
(* space (np.log, np.exp, np.geomspace).  A positive float v is            *)
(* represented here by the integer  Unit * log_B(v)  for a fixed base B    *)
(* (think of B = 10), so that                                              *)
(*     v * w   is  lg(v) + lg(w),     v ** p  is  p * lg(v),               *)
(*     v < w   is  lg(v) < lg(w),     v = 1   is  lg(v) = 0.               *)
(* Arithmetic is that of the reals: floating-point rounding is not         *)
(* modelled.  A float that may be zero or negative (the argument scaling,  *)
(* before validation) carries its sign beside the logarithm of its         *)
(* magnitude.  An Optional value is a sequence of length 0 (None) or 1.    *)
(*                                                                         *)
(* The module also models geomloss/backends/torch.py: the class            *)
(* UnbalancedWeight, whose forward and backward scale their argument by    *)
(* rho + eps/2 and by rho + eps.  Its numbers are added, halved and        *)
(* multiplied, and are exact rationals num/den in lowest terms.  The two   *)
(* programs share no state: Spec runs a call of annealing_parameters,      *)
(* SpecWeight the life of one UnbalancedWeight.                            *)
(***************************************************************************)
EXTENDS Integers, Sequences, FiniteSets, TLC

\* ------------------------------------------------------------------ bounds

\* Largest n_iter a caller passes.
MaxNIter == 3
\* Largest number of entries of the argument scales.
MaxScales == 2
\* blur and the scales range over B^(-MaxExp) .. B^0.
MaxExp == 2

\* ----------------------------------------------------------------- helpers

None == <<>>
Some(x) == <<x>>
IsNone(o) == Len(o) = 0
Val(o) == o[1]

RECURSIVE GCD(_, _)
GCD(a, b) == IF b = 0 THEN a ELSE GCD(b, a % b)

LCM(a, b) == (a * b) \div GCD(a, b)

RECURSIVE LcmUpTo(_)
LcmUpTo(n) == IF n <= 1 THEN 1 ELSE LCM(n, LcmUpTo(n - 1))

\* Number of model units in one power of the base B: chosen so that the
\* n_iter - 1 equal log-steps of np.geomspace are whole numbers of units.
Unit == LcmUpTo(MaxNIter - 1)

\* The Python builtin max, on two floats.
Max(a, b) == IF a >= b THEN a ELSE b

\* np.floor(a / b) for b /= 0.
FloorDiv(a, b) == IF b > 0 THEN a \div b ELSE (-a) \div (-b)

\* b ** p on a positive float b.
Pow(b, p) == p * b

\* np.log and np.exp: from a positive float to the real that is its
\* logarithm, and back.  Both sides are counted in the same units.
Log(v) == v
Exp(r) == r

\* ------------------------------------------------------------------ inputs

DiameterValues == { e * Unit : e \in -1..1 }
BlurValues == { e * Unit : e \in -MaxExp..0 }
PValues == {1, 2}
ReachValues == {None, Some(Unit)}
NIterValues == {None} \cup { Some(n) : n \in -1..MaxNIter }
\* scaling: None, -B, 0, B (all three rejected), 1, 1/B, 1/B^2, and
\* B^(-1/2) when Unit is even.
ScalingValues ==
    {None, Some([sgn |-> -1, lg |-> Unit]), Some([sgn |-> 0, lg |-> 0])}
    \cup { Some([sgn |-> 1, lg |-> e * Unit]) : e \in -2..1 }
    \cup { Some([sgn |-> 1, lg |-> -((Unit + 1) \div 2)]) }
ScaleValues == { e * Unit : e \in -MaxExp..0 }
ScalesValues ==
    {None} \cup
    { Some(s) : s \in UNION { [1..n -> ScaleValues] : n \in 0..MaxScales } }

Args ==
    [diameter : DiameterValues, p : PValues, blur : BlurValues,
     reach : ReachValues, n_iter : NIterValues, scaling : ScalingValues,
     scales : ScalesValues]

NoException == [type |-> "none", line |-> 0]

VARIABLES
    args,       \* the keyword arguments of the call, as passed
    pc,         \* position in the body of annealing_parameters
    diameter,   \* local diameter (rebound at line 143)
    blur,       \* local blur (rebound by the for loop of line 208)
    n_iter,     \* local n_iter (rebound at line 158)
    blur_list,  \* local blur_list
    eps_list,   \* local eps_list
    rho_list,   \* local rho_list
    jumps,      \* local jumps: None while the name is unbound
    k,          \* index of the current scale
    i,          \* loop index of line 208: None before the loop binds it
    exc,        \* the exception the call raised, if any
    ret,        \* the DescentParameters the call returned, if any
    wpc,        \* backends/torch.py: where the module and its instance stand
    ctor,       \* the keyword arguments passed to UnbalancedWeight(...)
    self,       \* the instance: its attributes eps and rho
    fwd,        \* the last call of forward: its argument x and its result
    bwd,        \* the last call of backward: its argument g and its result
    wexc        \* the exception backends/torch.py raised, if any

\* The state of backends/torch.py.
wvars == <<wpc, ctor, self, fwd, bwd, wexc>>

vars == <<args, pc, diameter, blur, n_iter, blur_list, eps_list, rho_list,
          jumps, k, i, exc, ret, wvars>>

\* backends/torch.py is not in use.
WeightIdle ==
    /\ wpc = "idle"
    /\ ctor = None
    /\ self = None
    /\ fwd = None
    /\ bwd = None
    /\ wexc = "none"

Init ==
    /\ args \in Args
    /\ pc = "validate"
    /\ diameter = args.diameter
    /\ blur = args.blur
    /\ n_iter = args.n_iter
    /\ blur_list = <<>>
    /\ eps_list = <<>>
    /\ rho_list = <<>>
    /\ jumps = None
    /\ k = 0
    /\ i = None
    /\ exc = NoException
    /\ ret = None
    /\ WeightIdle

\* raise: the call ends with an exception and returns nothing.
Raise(type, line) ==
    /\ exc' = [type |-> type, line |-> line]
    /\ pc' = "done"

\* ------------------------------------------------------------- validation

\* Slip: the test n_iter < 0, which lets n_iter = 0 through.
BadNIter_Strict(n) == ~IsNone(n) /\ Val(n) < 0

\* n_iter is not None and n_iter <= 0
BadNIter(n) == ~IsNone(n) /\ Val(n) <= 0

\* scaling is not None and (scaling <= 0 or scaling > 1)
BadScaling(s) == ~IsNone(s) /\ (Val(s).sgn <= 0 \/ Val(s).lg > 0)

\* scaling == 1 (False for None)
IsOne(s) == ~IsNone(s) /\ Val(s).sgn = 1 /\ Val(s).lg = 0

Validate ==
    /\ pc = "validate"
    /\ IF BadNIter(n_iter) THEN Raise("ValueError", 127)
       ELSE IF BadScaling(args.scaling) THEN Raise("ValueError", 132)
       ELSE IF IsNone(n_iter) /\ IsNone(args.scaling)
            THEN Raise("ValueError", 137)
       ELSE /\ pc' = "normalize"
            /\ exc' = exc
    /\ UNCHANGED <<wvars, args, diameter, blur, n_iter, blur_list, eps_list,
                   rho_list, jumps, k, i, ret>>

\* Slip: line 143 left out, the diameter used as passed.
NormalizeDiameter_Skip ==
    /\ pc = "normalize"
    /\ diameter' = diameter
    /\ pc' = "n_iter"
    /\ UNCHANGED <<wvars, args, blur, n_iter, blur_list, eps_list, rho_list,
                   jumps, k, i, exc, ret>>

\* diameter = max(diameter, blur)
NormalizeDiameter ==
    /\ pc = "normalize"
    /\ diameter' = Max(diameter, blur)
    /\ pc' = "n_iter"
    /\ UNCHANGED <<wvars, args, blur, n_iter, blur_list, eps_list, rho_list,
                   jumps, k, i, exc, ret>>

\* Slip: + 1 for the + 2 of line 158.
DerivedNIter_PlusOne(d, b, s) == FloorDiv(Log(b) - Log(d), Log(s)) + 1

\* int(np.floor((np.log(blur) - np.log(diameter)) / np.log(scaling))) + 2
DerivedNIter(d, b, s) == FloorDiv(Log(b) - Log(d), Log(s)) + 2

ComputeNIter ==
    /\ pc = "n_iter"
    /\ IF IsNone(n_iter)
       THEN IF IsOne(args.scaling)
            THEN /\ Raise("ValueError", 148)
                 /\ n_iter' = n_iter
            ELSE /\ n_iter' = Some(DerivedNIter(diameter, blur,
                                                Val(args.scaling).lg))
                 /\ pc' = "blur_list"
                 /\ exc' = exc
       ELSE /\ n_iter' = n_iter
            /\ pc' = "blur_list"
            /\ exc' = exc
    /\ UNCHANGED <<wvars, args, diameter, blur, blur_list, eps_list, rho_list,
                   jumps, k, i, ret>>

\* ------------------------------------------------------------- blur_list

\* [blur] * n_iter
ConstantList(b, n) == [j \in 1..n |-> b]

\* np.geomspace(diameter, blur, n_iter): n_iter points, evenly spaced in
\* log space, from diameter to blur, both included.
GeomSpace(d, b, n) ==
    [j \in 1..n |-> Exp(Log(d) + ((j - 1) * (Log(b) - Log(d))) \div (n - 1))]

\* Slip: the np.maximum of line 186 left out, a ramp with no floor at blur.
ClampedRamp_NoFloor(d, b, s, n) ==
    [j \in 1..n |-> Exp(Log(d) + (j - 1) * Log(s))]

\* np.exp(np.maximum(np.log(diameter) + np.arange(n_iter) * np.log(scaling),
\*                   np.log(blur)))
ClampedRamp(d, b, s, n) ==
    [j \in 1..n |-> Exp(Max(Log(d) + (j - 1) * Log(s), Log(b)))]

BlurList(d, b, s, n) ==
    IF IsOne(s) THEN ConstantList(b, n)
    ELSE IF IsNone(s)
         THEN IF n = 1 THEN <<b>> ELSE GeomSpace(d, b, n)
    ELSE ClampedRamp(d, b, Val(s).lg, n)

BuildBlurList ==
    /\ pc = "blur_list"
    /\ blur_list' = BlurList(diameter, blur, args.scaling, Val(n_iter))
    /\ pc' = "eps_rho"
    /\ UNCHANGED <<wvars, args, diameter, blur, n_iter, eps_list, rho_list,
                   jumps, k, i, exc, ret>>

\* Slip: the comprehension run over blur_list[1:], as the jump scan is.
EpsList_Tail(bl, p) == [j \in 1..(Len(bl) - 1) |-> Pow(bl[j + 1], p)]

\* eps_list = [b**p for b in blur_list]
EpsList(bl, p) == [j \in 1..Len(bl) |-> Pow(bl[j], p)]

\* Slip: rho = reach, the power left out.
Rho_NoPower(reach, p) == IF IsNone(reach) THEN None ELSE Some(Val(reach))

\* rho = None if reach is None else reach**p
Rho(reach, p) == IF IsNone(reach) THEN None ELSE Some(Pow(Val(reach), p))

\* rho_list = [rho] * len(blur_list)
RhoList(rho, bl) == [j \in 1..Len(bl) |-> rho]

BuildEpsRho ==
    /\ pc = "eps_rho"
    /\ eps_list' = EpsList(blur_list, args.p)
    /\ rho_list' = RhoList(Rho(args.reach, args.p), blur_list)
    /\ pc' = "jumps"
    /\ UNCHANGED <<wvars, args, diameter, blur, n_iter, blur_list, jumps, k, i,
                   exc, ret>>

\* ----------------------------------------------------------------- jumps

\* scales is None or len(scales) < 2
SingleScale(s) == IsNone(s) \/ Len(Val(s)) < 2

\* Line 202: single-scale mode binds jumps = []; the multiscale branch binds
\* k = 0 and enters the loop (it binds no jumps).
StartJumps ==
    /\ pc = "jumps"
    /\ IF SingleScale(args.scales)
       THEN /\ jumps' = Some(<<>>)
            /\ k' = k
            /\ pc' = "return"
       ELSE /\ jumps' = jumps
            /\ k' = 0
            /\ pc' = "scan"
    /\ UNCHANGED <<wvars, args, diameter, blur, n_iter, blur_list, eps_list,
                   rho_list, i, exc, ret>>

\* blur_list[1:]
Rest(bl) == SubSeq(bl, 2, Len(bl))

\* The index enumerate() binds next: 0 at first, then i + 1.
NextIndex(ix) == IF IsNone(ix) THEN 0 ELSE Val(ix) + 1

\* One turn of  for (i, blur) in enumerate(blur_list[1:]):  either the
\* iterator is exhausted and the loop ends, or i and blur are bound to the
\* next item and the body runs.  jumps.append(i) on the unbound name jumps
\* raises UnboundLocalError.
ScanStep ==
    /\ pc = "scan"
    /\ LET scales == Val(args.scales)
           rest == Rest(blur_list)
           ni == NextIndex(i)
       IN IF ni >= Len(rest)
          THEN /\ pc' = "scan_end"
               /\ UNCHANGED <<i, blur, jumps, k, exc>>
          ELSE LET b == rest[ni + 1]
               IN /\ i' = Some(ni)
                  /\ blur' = b
                  /\ IF b < scales[k + 1]
                     THEN IF IsNone(jumps)
                          THEN /\ Raise("UnboundLocalError", 210)
                               /\ UNCHANGED <<jumps, k>>
                          ELSE /\ jumps' = Some(Append(Val(jumps), ni))
                               /\ k' = k + 1
                               /\ IF k' >= Len(scales)
                                  THEN /\ pc' = "scan_end"
                                       /\ exc' = exc
                                  ELSE IF b < scales[k' + 1]
                                       THEN Raise("ValueError", 221)
                                       ELSE /\ pc' = "scan"
                                            /\ exc' = exc
                     ELSE /\ pc' = "scan"
                          /\ UNCHANGED <<jumps, k, exc>>
    /\ UNCHANGED <<wvars, args, diameter, n_iter, blur_list, eps_list, rho_list,
                   ret>>

\* Slip: the test of line 227 left out, the call going on to the return.
EndScan_NoCheck ==
    /\ pc = "scan_end"
    /\ pc' = "return"
    /\ UNCHANGED <<wvars, args, diameter, blur, n_iter, blur_list, eps_list,
                   rho_list, jumps, k, i, exc, ret>>

\* if k < len(scales): raise NotImplementedError()
EndScan ==
    /\ pc = "scan_end"
    /\ IF k < Len(Val(args.scales))
       THEN Raise("NotImplementedError", 228)
       ELSE /\ pc' = "return"
            /\ exc' = exc
    /\ UNCHANGED <<wvars, args, diameter, blur, n_iter, blur_list, eps_list,
                   rho_list, jumps, k, i, ret>>

\* return DescentParameters(diameter=..., jumps=..., eps_list=...,
\*                          blur_list=..., rho_list=...)
DescentParameters(d, j, el, bl, rl) ==
    [diameter |-> d, jumps |-> j, eps_list |-> el, blur_list |-> bl,
     rho_list |-> rl]

Return ==
    /\ pc = "return"
    /\ IF IsNone(jumps)
       THEN /\ Raise("UnboundLocalError", 233)
            /\ ret' = ret
       ELSE /\ ret' = Some(DescentParameters(diameter, Val(jumps), eps_list,
                                             blur_list, rho_list))
            /\ pc' = "done"
            /\ exc' = exc
    /\ UNCHANGED <<wvars, args, diameter, blur, n_iter, blur_list, eps_list,
                   rho_list, jumps, k, i>>

Next ==
    \/ Validate
    \/ NormalizeDiameter
    \/ ComputeNIter
    \/ BuildBlurList
    \/ BuildEpsRho
    \/ StartJumps
    \/ ScanStep
    \/ EndScan
    \/ Return

Spec == Init /\ [][Next]_vars

\* ------------------------------------------------------ UnbalancedWeight

\* The float n/d, d > 0, in lowest terms.
Rat(n, d) ==
    LET g == GCD(IF n < 0 THEN -n ELSE n, d)
    IN [num |-> n \div g, den |-> d \div g]

\* a + b, a * b and a / 2 on floats.
RatAdd(a, b) == Rat(a.num * b.den + b.num * a.den, a.den * b.den)
RatMul(a, b) == Rat(a.num * b.num, a.den * b.den)
RatHalf(a) == Rat(a.num, 2 * a.den)

\* eps and rho are >= 0; x and g are any floats.
EpsValues == {Rat(0, 1), Rat(1, 2), Rat(1, 1), Rat(2, 1), Rat(3, 1)}
RhoValues == {Rat(0, 1), Rat(1, 2), Rat(1, 1), Rat(3, 1)}
XValues == {Rat(-2, 1), Rat(-1, 2), Rat(0, 1), Rat(1, 1), Rat(4, 1)}

\* How the interpreter treats the annotation  x: RealTensor  of the two
\* methods, a name the file does not import: evaluated when the def
\* statement runs (NameError), or deferred until something asks for it.
AnnotationModes == {"eager", "deferred"}

\* annealing_parameters is not in use.
AnnealingIdle ==
    /\ args = [diameter |-> 0, p |-> 1, blur |-> 0, reach |-> None,
               n_iter |-> Some(1), scaling |-> None, scales |-> None]
    /\ pc = "idle"
    /\ diameter = 0
    /\ blur = 0
    /\ n_iter = Some(1)
    /\ blur_list = <<>>
    /\ eps_list = <<>>
    /\ rho_list = <<>>
    /\ jumps = None
    /\ k = 0
    /\ i = None
    /\ exc = NoException
    /\ ret = None

anneal_vars == <<args, pc, diameter, blur, n_iter, blur_list, eps_list,
                 rho_list, jumps, k, i, exc, ret>>

InitWeight ==
    /\ AnnealingIdle
    /\ wpc = "import"
    /\ ctor = None
    /\ self = None
    /\ fwd = None
    /\ bwd = None
    /\ wexc = "none"

\* import of backends/torch.py: the class statement runs its two def
\* statements, whose annotations name RealTensor.
ImportModule ==
    /\ wpc = "import"
    /\ \E mode \in AnnotationModes :
          IF mode = "eager"
          THEN /\ wexc' = "NameError"
               /\ wpc' = "failed"
          ELSE /\ wexc' = wexc
               /\ wpc' = "loaded"
    /\ UNCHANGED <<anneal_vars, ctor, self, fwd, bwd>>

\* UnbalancedWeight(eps=..., rho=...):  self.eps, self.rho = eps, rho
Construct ==
    /\ wpc = "loaded"
    /\ \E e \in EpsValues, r \in RhoValues :
          /\ ctor' = Some([eps |-> e, rho |-> r])
          /\ self' = Some([eps |-> e, rho |-> r])
    /\ wpc' = "ready"
    /\ UNCHANGED <<anneal_vars, fwd, bwd, wexc>>

\* (self.rho + self.eps / 2) * x
ForwardValue(eps, rho, x) == RatMul(RatAdd(rho, RatHalf(eps)), x)

\* Slip: the backward rule taken from the forward formula.
BackwardValue_FromForward(eps, rho, g) == ForwardValue(eps, rho, g)

\* (self.rho + self.eps) * g
BackwardValue(eps, rho, g) == RatMul(RatAdd(rho, eps), g)

Forward ==
    /\ wpc = "ready"
    /\ \E x \in XValues :
          fwd' = Some([arg |-> x,
                       res |-> ForwardValue(Val(self).eps, Val(self).rho, x)])
    /\ UNCHANGED <<anneal_vars, wpc, ctor, self, bwd, wexc>>

Backward ==
    /\ wpc = "ready"
    /\ \E g \in XValues :
          bwd' = Some([arg |-> g,
                       res |-> BackwardValue(Val(self).eps, Val(self).rho, g)])
    /\ UNCHANGED <<anneal_vars, wpc, ctor, self, fwd, wexc>>

NextWeight ==
    \/ ImportModule
    \/ Construct
    \/ Forward
    \/ Backward

SpecWeight == InitWeight /\ [][NextWeight]_vars

\* ============================================================== properties

Returned == ~IsNone(ret)
Plan == Val(ret)
Done == pc = "done"
\* The arguments as the properties read them.
ScalingGiven == ~IsNone(args.scaling)
NIterGiven == ~IsNone(args.n_iter)
\* scaling is a float in (0, 1)
ScalingInside ==
    ScalingGiven /\ Val(args.scaling).sgn = 1 /\ Val(args.scaling).lg < 0
ScalingIsOne ==
    ScalingGiven /\ Val(args.scaling).sgn = 1 /\ Val(args.scaling).lg = 0
Multiscale == ~IsNone(args.scales) /\ Len(Val(args.scales)) >= 2
\* The errors the function documents: its ValueErrors and NotImplementedError.
DocumentedError == exc.type \in {"ValueError", "NotImplementedError"}
\* max(diameter, blur) of the arguments, written out.
NormalDiameter ==
    IF args.diameter >= args.blur THEN args.diameter ELSE args.blur

\* C1: every call that the documented errors do not reject returns a plan
\* whose jumps has len(scales) - 1 entries when scales has 2 or more entries
\* and is [] when scales is absent or has fewer than 2 entries.
C1_JumpsLength ==
    (Done /\ ~DocumentedError) =>
        /\ Returned
        /\ Len(Plan.jumps) =
              IF Multiscale THEN Len(Val(args.scales)) - 1 ELSE 0

\* C2 (as claimed): whenever scaling is not 1, the last entry of the
\* returned blur_list equals blur.
C2_LastIsBlur ==
    (Returned /\ ~ScalingIsOne) =>
        Plan.blur_list[Len(Plan.blur_list)] = args.blur

\* C2 (amended): the last entry of the returned blur_list equals blur when
\* scaling is absent, when scaling is in (0,1) and n_iter is absent, and when
\* both are given with max(diameter, blur) * scaling^(n_iter - 1) <= blur;
\* when both are given and that product is above blur, the last entry is
\* that product.
C2_LastIsBlurWhenReached ==
    (Returned /\ ~ScalingIsOne) =>
        LET bl == Plan.blur_list
            last == bl[Len(bl)]
            ramp == NormalDiameter
                    + (Val(args.n_iter) - 1) * Val(args.scaling).lg
        IN IF ScalingInside /\ NIterGiven /\ ramp > args.blur
           THEN last = ramp
           ELSE last = args.blur

C2_Witness ==
    /\ Returned
    /\ ScalingInside
    /\ NIterGiven
    /\ Len(Plan.blur_list) >= 2
    /\ Plan.blur_list[1] > args.blur
    /\ NormalDiameter + (Val(args.n_iter) - 1) * Val(args.scaling).lg
          < args.blur
    /\ Plan.blur_list[Len(Plan.blur_list)] = args.blur

\* C3: every call that the documented errors do not reject returns a plan
\* whose jumps is strictly increasing, each element j with 0 <= j < n_iter,
\* n_iter being the length of blur_list.
C3_JumpsIncreasing ==
    (Done /\ ~DocumentedError) =>
        /\ Returned
        /\ \A m \in 1..Len(Plan.jumps) :
              /\ 0 <= Plan.jumps[m]
              /\ Plan.jumps[m] < Len(Plan.blur_list)
              /\ m > 1 => Plan.jumps[m - 1] < Plan.jumps[m]

\* C4: in every returned plan blur_list, eps_list and rho_list have the same
\* length n_iter >= 1: the caller's n_iter when given, the derived one
\* otherwise.
C4_Lengths ==
    Returned =>
        /\ Len(Plan.blur_list) = Val(n_iter)
        /\ Len(Plan.eps_list) = Val(n_iter)
        /\ Len(Plan.rho_list) = Val(n_iter)
        /\ Val(n_iter) >= 1
        /\ NIterGiven => Val(n_iter) = Val(args.n_iter)

C4_Witness ==
    /\ Returned
    /\ ~NIterGiven
    /\ Len(Plan.blur_list) >= 3
    /\ Len(Plan.eps_list) = Len(Plan.blur_list)
    /\ Len(Plan.rho_list) = Len(Plan.blur_list)

\* C5: a call with n_iter <= 0, with scaling outside (0,1], with neither
\* n_iter nor scaling, or with scaling == 1 and no n_iter never gets as far
\* as building a schedule, keeps a step to take until it has ended, ends with
\* a ValueError and returns no plan.
C5_Case ==
    \/ NIterGiven /\ Val(args.n_iter) <= 0
    \/ ScalingGiven /\ ~ScalingInside /\ ~ScalingIsOne
    \/ ~NIterGiven /\ ~ScalingGiven
    \/ ScalingIsOne /\ ~NIterGiven

C5_Rejected ==
    C5_Case =>
        /\ pc \in {"validate", "normalize", "n_iter", "done"}
        /\ ~Returned
        /\ blur_list = <<>>
        /\ Done => exc.type = "ValueError"
        /\ ~Done => (exc = NoException /\ ENABLED Next)

C5_Witness ==
    /\ Done
    /\ ScalingIsOne
    /\ ~NIterGiven
    /\ exc.type = "ValueError"
    /\ ~Returned

\* C6: in a multiscale call whose first blur value below scales[0] is also
\* below scales[1], the call ends with the too-steep ValueError and returns
\* no plan.
C6_FirstJumpSkipsAScale ==
    /\ Multiscale
    /\ \E j \in 2..Len(blur_list) :
          /\ blur_list[j] < Val(args.scales)[1]
          /\ blur_list[j] < Val(args.scales)[2]
          /\ \A m \in 2..(j - 1) : ~(blur_list[m] < Val(args.scales)[1])

C6_TooSteep ==
    (Done /\ C6_FirstJumpSkipsAScale) =>
        /\ exc.type = "ValueError"
        /\ exc.line = 221
        /\ ~Returned

C8_DerivedSchedule ==
    (Returned /\ ~NIterGiven) =>
        LET bl == Plan.blur_list
            n == Len(bl)
            step == -Val(args.scaling).lg
            drop == NormalDiameter - args.blur
        IN /\ ScalingInside
           /\ n = Val(n_iter)
           /\ (n - 2) * step <= drop
           /\ drop < (n - 1) * step
           /\ bl[1] = NormalDiameter
           /\ \A j \in 1..n :
                 LET g == NormalDiameter - (j - 1) * step
                 IN bl[j] = IF g >= args.blur THEN g ELSE args.blur
           /\ bl[n] = args.blur
           /\ (args.diameter = 0 /\ args.blur = -2 * Unit /\ step = Unit)
                 => bl = <<0, -Unit, -2 * Unit, -2 * Unit>>

C8_Witness ==
    /\ Returned
    /\ ~NIterGiven
    /\ args.diameter = 0
    /\ args.blur = -2 * Unit
    /\ Val(args.scaling).lg = -Unit
    /\ Plan.blur_list = <<0, -Unit, -2 * Unit, -2 * Unit>>

\* C9: the returned diameter is max(diameter, blur), hence >= blur, and the
\* returned blur_list is non-increasing with blur <= entry <= diameter.
C9_DiameterAndOrder ==
    Returned =>
        LET bl == Plan.blur_list
        IN /\ Plan.diameter = NormalDiameter
           /\ Plan.diameter >= args.blur
           /\ \A j \in 1..Len(bl) :
                 /\ args.blur <= bl[j]
                 /\ bl[j] <= Plan.diameter
                 /\ j > 1 => bl[j] <= bl[j - 1]

C9_Witness ==
    /\ Returned
    /\ args.diameter < args.blur
    /\ Plan.diameter = args.blur
    /\ Len(Plan.blur_list) >= 2

\* C10: eps_list[i] = blur_list[i] ** p for every i, and every entry of
\* rho_list is None when reach is absent and reach ** p otherwise.
C10_EpsAndRho ==
    Returned =>
        /\ Len(Plan.eps_list) = Len(Plan.blur_list)
        /\ \A j \in 1..Len(Plan.eps_list) :
              Plan.eps_list[j] = args.p * Plan.blur_list[j]
        /\ \A j \in 1..Len(Plan.rho_list) :
              IF IsNone(args.reach)
              THEN IsNone(Plan.rho_list[j])
              ELSE /\ ~IsNone(Plan.rho_list[j])
                   /\ Val(Plan.rho_list[j]) = args.p * Val(args.reach)

C10_Witness ==
    /\ Returned
    /\ args.p = 2
    /\ ~IsNone(args.reach)
    /\ Len(Plan.eps_list) >= 2
    /\ \E j \in 1..Len(Plan.blur_list) : Plan.blur_list[j] # 0
    /\ Val(Plan.rho_list[1]) = 2 * Val(args.reach)


\* C11: an UnbalancedWeight built with (eps, rho) keeps eps and rho through
\* every call; forward(x) is (rho + eps/2) * x and backward(g) is
\* (rho + eps) * g, so on the same non-zero argument the two differ exactly
\* when eps /= 0; with eps = 2 and rho = 3, forward(4) = 16 and
\* backward(4) = 20.
C11_Scaling ==
    ~IsNone(self) =>
        LET e == Val(ctor).eps
            r == Val(ctor).rho
            \* rho + eps/2 and rho + eps over the denominator 2 * e.den * r.den
            m_fwd == 2 * r.num * e.den + e.num * r.den
            m_bwd == 2 * r.num * e.den + 2 * e.num * r.den
            m_den == 2 * e.den * r.den
        IN /\ Val(self).eps = e
           /\ Val(self).rho = r
           /\ ~IsNone(fwd) =>
                 LET x == Val(fwd).arg
                     y == Val(fwd).res
                 IN /\ y.den > 0
                    /\ y.num * m_den * x.den = y.den * m_fwd * x.num
                    /\ (e = Rat(2, 1) /\ r = Rat(3, 1) /\ x = Rat(4, 1))
                          => y = Rat(16, 1)
           /\ ~IsNone(bwd) =>
                 LET g == Val(bwd).arg
                     y == Val(bwd).res
                 IN /\ y.den > 0
                    /\ y.num * m_den * g.den = y.den * m_bwd * g.num
                    /\ (e = Rat(2, 1) /\ r = Rat(3, 1) /\ g = Rat(4, 1))
                          => y = Rat(20, 1)
           /\ (~IsNone(fwd) /\ ~IsNone(bwd) /\ Val(fwd).arg = Val(bwd).arg
                  /\ Val(fwd).arg.num # 0)
                 => ((Val(fwd).res # Val(bwd).res) <=> (e.num # 0))

C11_Witness ==
    /\ ~IsNone(self)
    /\ Val(self) = [eps |-> Rat(2, 1), rho |-> Rat(3, 1)]
    /\ ~IsNone(fwd)
    /\ ~IsNone(bwd)
    /\ Val(fwd) = [arg |-> Rat(4, 1), res |-> Rat(16, 1)]
    /\ Val(bwd) = [arg |-> Rat(4, 1), res |-> Rat(20, 1)]

\* C12: in the jump scan, when the blur value of the next iteration,
\* blur_list[i + 1], is below the current scale scales[k], a jump is recorded
\* at index i and k advances; so in a returned multiscale plan jumps[m] is
\* the smallest index j above jumps[m - 1] (at least 0 for the first) with
\* blur_list[j + 1] < scales[m], and every jump is at most n_iter - 2.
C12_SmallestIndex ==
    LET scales == Val(args.scales)
        bl == Plan.blur_list
        js == Plan.jumps
    IN \A m \in 1..Len(js) :
          LET from == IF m = 1 THEN 0 ELSE js[m - 1] + 1
          IN /\ from <= js[m]
             /\ js[m] <= Len(bl) - 2
             /\ bl[js[m] + 2] < scales[m]
             /\ \A j \in from..(js[m] - 1) : ~(bl[j + 2] < scales[m])

C12_JumpRecorded ==
    [][ /\ ( /\ pc = "scan"
             /\ NextIndex(i) < Len(Rest(blur_list))
             /\ Rest(blur_list)[NextIndex(i) + 1] < Val(args.scales)[k + 1] )
           => /\ ~IsNone(jumps')
              /\ Len(Val(jumps')) >= 1
              /\ Val(jumps')[Len(Val(jumps'))] = NextIndex(i)
              /\ k' = k + 1
        /\ (Returned /\ Multiscale) => C12_SmallestIndex ]_vars

\* C13: a multiscale call with a constant schedule (scaling == 1) or with
\* n_iter == 1 returns no plan: it ends in the too-steep ValueError or in
\* NotImplementedError.
C13_NeverSucceeds ==
    ( /\ Done
      /\ Multiscale
      /\ blur_list # <<>>
      /\ ScalingIsOne \/ Len(blur_list) = 1 )
    => /\ ~Returned
       /\ \/ exc = [type |-> "ValueError", line |-> 221]
          \/ exc.type = "NotImplementedError"

=============================================================================
